---- MODULE Spec2Model ----
(***************************************************************************)
(* The streaming research-execution endpoint                               *)
(* (src/app/api/research/execute/stream/route.ts) as a state machine.      *)
(* The file holds two revisions of the handler: the current one with the   *)
(* optional context-analysis step and the synthesis step announcements     *)
(* (variant 1, lines 20-385) and the earlier one without them (variant 2,  *)
(* lines 394-663).  One run of the ReadableStream start callback is        *)
(* modelled; every await is a suspension point at which the request's      *)
(* abort signal may fire.                                                  *)
(*                                                                         *)
(* The remote calls are outside the repository.  A call that was handed    *)
(* the abort signal (fetch, generateText, streamText, generateObject, the  *)
(* token stream) either succeeds or throws an Error while the signal has   *)
(* not fired, and throws AbortError once it has; the token stream may also *)
(* still yield a buffered delta or end after the signal fired.  The        *)
(* deferred usage and response promises of a stream settle either way at   *)
(* any time.  A call may also never settle: no action is forced to happen. *)
(*                                                                         *)
(* The client of the endpoint (src/unnamed/part_010) is modelled next to   *)
(* it: readEventStream, which turns the bytes of the response back into    *)
(* events (SpecTransport), and executePlanStream with its event handler    *)
(* and the Cancel button (SpecClient).  The client is a component of its   *)
(* own: it is run against any stream of well-formed events the network     *)
(* may deliver.  Each specification moves its own variables and leaves the *)
(* others at their initial values.                                         *)
(***************************************************************************)
EXTENDS Integers, Sequences, FiniteSets, TLC

\* ------------------------------------------------------------------ bounds
MaxSteps == 2
MaxChunks == 2
MaxFrames == 2      \* frames of one response in the transport model
MaxEvents == 3      \* events the client processes in one run
MaxQuestions == 2   \* questions of one answer-questions request

\* --------------------------------------------------------- input universes
\* The k-th delta of a token stream (k from 0): the handler never inspects a
\* delta, so its content is fixed by its position.
Delta(k) == IF k % 2 = 0 THEN "a" ELSE "b"
Titles == {"T"}
ErrorMessages == {"", "boom"}
AnalysisTexts == {"ctx"}
QuestionTexts == {"Q"}
SourceLists ==
    { <<>>,
      <<[url |-> "u1", title |-> "A"]>>,
      <<[url |-> "u1", title |-> "B"], [url |-> "u2", title |-> "C"],
        [url |-> "u1", title |-> "D"]>> }
SearchResults ==
    {[defined |-> FALSE, list |-> <<>>]}
        \cup {[defined |-> TRUE, list |-> l] : l \in SourceLists}
ReportObjects == {[title |-> "R", sources |-> <<[url |-> "m", title |-> "M"]>>]}

VARIABLES
    variant,                \* which revision of the handler runs
    hasKey,                 \* process.env.OPENAI_API_KEY is set
    topic,                  \* body.topic is non-empty
    includeContext,         \* includeContextAnalysis && contextFiles?.length
    steps,                  \* body.steps (their titles)
    aborted,                \* req.signal.aborted
    pc,                     \* the await the start callback is suspended at
    i,                      \* loop variable of the step loop
    events,                 \* the frames enqueued by send, in order
    full,                   \* accumulator of the current step's text
    sources,                \* sources of the current step
    collected,              \* step outputs collected for the report
    contextAnalysisResult,  \* text of the context analysis
    thrown,                 \* the last exception a remote call threw, and where
    abortedAt,              \* where the run was when the signal fired
    severed,                \* the response stream was cancelled by its reader
    failurePath,            \* the outer catch took its non-abort branch
    escaped,                \* an exception left the start callback
    tSent,                  \* transport: the events the server sent
    tWire,                  \* transport: characters not yet read
    tBuffer,                \* readEventStream: buffer
    tDelivered,             \* transport: the events passed to onEvent
    tDone,                  \* readEventStream: the read loop is over
    cPc,                    \* client: the await executePlanStream is at
    executing,              \* client state: executing
    execCtrl,               \* client state: an AbortController is held
    signalAborted,          \* client: ctrl.signal.aborted
    stepResults,            \* client state: stepResults
    thinkingSteps,          \* client state: thinkingSteps
    progress,               \* client state: progress
    execReport,             \* client state: execReport
    lastAlert,              \* client: text of the last alert shown
    cCount,                 \* client: events processed in this run
    cLast,                  \* client: the last operation and its event
    sawError,               \* client: an error event was processed in this run
    sawDone,                \* client: a done event was processed in this run
    plan,                   \* client state: plan (its steps), or null
    qHasKey,                \* answer-questions: OPENAI_API_KEY is set
    questions,              \* answer-questions: body.questions
    qAborted,               \* answer-questions: req.signal.aborted
    qPc,                    \* answer-questions: the await the callback is at
    qI,                     \* answer-questions: loop variable
    qEvents,                \* answer-questions: the frames sent, in order
    fullAnswer,             \* answer-questions: text of the current answer
    qThrown                 \* answer-questions: what the inner catch caught, in order

inputs == <<variant, hasKey, topic, includeContext, steps>>
link == <<severed, failurePath, escaped>>
run == <<aborted, pc, i, events, full, sources, collected,
         contextAnalysisResult, thrown, abortedAt>>
transport == <<tSent, tWire, tBuffer, tDelivered, tDone>>
client == <<cPc, executing, execCtrl, signalAborted, stepResults, thinkingSteps,
            progress, execReport, lastAlert, cCount, cLast, sawError, sawDone>>
answers == <<qHasKey, questions, qAborted, qPc, qI, qEvents, fullAnswer, qThrown>>
others == <<transport, client, plan, answers>>
vars == <<variant, hasKey, topic, includeContext, steps, aborted, pc, i, events,
          full, sources, collected, contextAnalysisResult, thrown, abortedAt,
          severed, failurePath, escaped,
          tSent, tWire, tBuffer, tDelivered, tDone,
          cPc, executing, execCtrl, signalAborted, stepResults, thinkingSteps,
          progress, execReport, lastAlert, cCount, cLast, sawError, sawDone,
          plan,
          qHasKey, questions, qAborted, qPc, qI, qEvents, fullAnswer, qThrown>>

\* ------------------------------------------------------------------ events
NoReport == [title |-> "", sources |-> <<>>]
Blank ==
    [type |-> "", index |-> -1, current |-> 0, total |-> 0, title |-> "",
     text |-> "", sources |-> <<>>, message |-> "", report |-> NoReport]
EvProgress(c, t) == [Blank EXCEPT !.type = "progress", !.current = c, !.total = t]
EvStepStart(idx, title) == [Blank EXCEPT !.type = "step-start", !.index = idx, !.title = title]
EvStepSources(idx, srcs) == [Blank EXCEPT !.type = "step-sources", !.index = idx, !.sources = srcs]
EvStepChunk(idx, text) == [Blank EXCEPT !.type = "step-chunk", !.index = idx, !.text = text]
EvStepUsage(idx) == [Blank EXCEPT !.type = "step-usage", !.index = idx]
EvStepEnd(idx, summary) == [Blank EXCEPT !.type = "step-end", !.index = idx, !.text = summary]
EvReport(r) == [Blank EXCEPT !.type = "report", !.report = r]
EvError(msg) == [Blank EXCEPT !.type = "error", !.message = msg]
EvDone == [Blank EXCEPT !.type = "done"]

NoThrow == [site |-> "none", index |-> -1, name |-> "", message |-> ""]
NoAbort == [pc |-> "none", i |-> -1, n |-> -1]
AbortError == [name |-> "AbortError", message |-> "This operation was aborted"]
Failure(m) == [name |-> "Error", message |-> m]

Max(a, b) == IF a >= b THEN a ELSE b

\* ------------------------------------------------------- derived constants
contextSteps == IF variant = 1 /\ includeContext THEN 1 ELSE 0
researchSteps == Len(steps)
totalNoContext == Max(1, researchSteps)
total == Max(1, contextSteps + researchSteps)
finalStepIndexNoContext == researchSteps
finalStepIndex == contextSteps + researchSteps
stepIndexNoOffset(k) == k
stepIndex(k) == contextSteps + k
progressCurrent(k) == contextSteps + k + 1

ContextTitle == "Context Analysis: Business Data Review"
SynthesisTitle == "Generating Executive Briefing"
SynthesisSummary == "Executive briefing generated successfully"

\* The message of the `error` frame: e?.message || "Execution failed".
ErrorMessage(e) == IF e.message = "" THEN "Execution failed" ELSE e.message

\* Deduplication of sources by url, first occurrence wins (a Map keeps
\* insertion order).
RECURSIVE UniqueFromLastWins(_, _)
UniqueFromLastWins(list, acc) ==
    IF list = <<>> THEN acc
    ELSE UniqueFromLastWins(Tail(list),
                    IF \E k \in 1..Len(acc) : acc[k].url = Head(list).url
                    THEN [k \in 1..Len(acc) |->
                              IF acc[k].url = Head(list).url THEN Head(list) ELSE acc[k]]
                    ELSE Append(acc, Head(list)))
RECURSIVE UniqueFrom(_, _)
UniqueFrom(list, acc) ==
    IF list = <<>> THEN acc
    ELSE UniqueFrom(Tail(list),
                    IF \E k \in 1..Len(acc) : acc[k].url = Head(list).url
                    THEN acc ELSE Append(acc, Head(list)))
RECURSIVE FlatSources(_)
FlatSources(coll) ==
    IF coll = <<>> THEN <<>> ELSE Head(coll).sources \o FlatSources(Tail(coll))
Unique(coll) == UniqueFrom(FlatSources(coll), <<>>)

\* search.sources?.map(...) ?? []
SourcesOf(search) == IF search.defined THEN search.list ELSE <<>>

\* ------------------------------------------------- control-flow fragments
\* controller.enqueue and controller.close succeed only while the response
\* stream has not been cancelled by its reader.
StreamOpen == ~severed

\* finally { controller.close() } after the frames `ev` have been sent.
Finish(ev) ==
    /\ StreamOpen
    /\ events' = ev
    /\ pc' = "closed"

\* The outer catch: AbortError sends done alone, anything else error + done.
CatchTailAbortSilent(e) ==
    IF e.name = "AbortError"
    THEN <<>>
    ELSE <<EvError(ErrorMessage(e)), EvDone>>

CatchTailSwallow(e) == <<EvDone>>

CatchTail(e) ==
    IF e.name = "AbortError"
    THEN <<EvDone>>
    ELSE <<EvError(ErrorMessage(e)), EvDone>>

Catch(ev, e, site) ==
    /\ Finish(ev \o CatchTail(e))
    /\ thrown' = [site |-> site, index |-> i, name |-> e.name, message |-> e.message]

\* Frames that announce the synthesis unit (variant 1 only).
SynthesisAnnounce ==
    IF variant = 1
    THEN <<EvProgress(finalStepIndex, finalStepIndex + 1),
           EvStepStart(finalStepIndex, SynthesisTitle)>>
    ELSE <<>>

\* The code after the step loop: the abort guard, then the synthesis call.
AfterLoop(ev, k) ==
    /\ i' = k
    /\ IF aborted
       THEN Finish(ev \o <<EvDone>>)
       ELSE /\ events' = ev \o SynthesisAnnounce
            /\ pc' = "synth"

\* Frames sent when research step k starts.
StepAnnounce(k) ==
    <<EvProgress(progressCurrent(k), total), EvStepStart(stepIndex(k), steps[k + 1])>>

\* The head of the step loop with loop variable k.
EnterLoopOffByOne(ev, k) ==
    IF k < researchSteps - 1 /\ ~aborted
    THEN /\ events' = ev \o StepAnnounce(k)
         /\ pc' = "search"
         /\ i' = k
    ELSE AfterLoop(ev, k)

EnterLoop(ev, k) ==
    IF k < researchSteps /\ ~aborted
    THEN /\ events' = ev \o StepAnnounce(k)
         /\ pc' = "search"
         /\ i' = k
    ELSE AfterLoop(ev, k)

\* -------------------------------------------------------------------- Init
\* The plan: null, or a list of steps with a title and an include flag.
NoPlan == [present |-> FALSE, steps |-> <<>>]
PlanStep(title, include) == [title |-> title, include |-> include]
PlanOf(list) == [present |-> TRUE, steps |-> list]

\* The client before Approve & Execute is pressed.
NoProgress == [set |-> FALSE, current |-> 0, total |-> 0]
NoOp == [op |-> "none", evt |-> Blank]
ClientIdle ==
    /\ cPc = "idle"
    /\ executing = FALSE
    /\ execCtrl = FALSE
    /\ signalAborted = FALSE
    /\ stepResults = <<>>
    /\ thinkingSteps = {}
    /\ progress = NoProgress
    /\ execReport = NoReport
    /\ lastAlert = ""
    /\ cCount = 0
    /\ cLast = NoOp
    /\ sawError = FALSE
    /\ sawDone = FALSE

\* The answer-questions handler before its start callback runs.
AnswersStart ==
    /\ qAborted = FALSE
    /\ qPc = "start"
    /\ qI = 0
    /\ qEvents = <<>>
    /\ fullAnswer = ""
    /\ qThrown = <<>>
AnswersIdle ==
    /\ qHasKey = TRUE
    /\ questions = <<>>
    /\ AnswersStart

\* No response is being read.
TransportIdle ==
    /\ tSent = <<>>
    /\ tWire = <<>>
    /\ tBuffer = <<>>
    /\ tDelivered = <<>>
    /\ tDone = FALSE

\* The handler before its start callback runs.
RunStart ==
    /\ aborted = FALSE
    /\ pc = "start"
    /\ i = 0
    /\ events = <<>>
    /\ full = ""
    /\ sources = <<>>
    /\ collected = <<>>
    /\ contextAnalysisResult = ""
    /\ thrown = NoThrow
    /\ abortedAt = NoAbort
    /\ severed = FALSE
    /\ failurePath = FALSE
    /\ escaped = FALSE

Init ==
    /\ variant \in {1, 2}
    /\ hasKey \in BOOLEAN
    /\ topic \in BOOLEAN
    /\ includeContext \in (IF variant = 1 THEN BOOLEAN ELSE {FALSE})
    /\ steps \in UNION {[1..n -> Titles] : n \in 0..MaxSteps}
    /\ TransportIdle
    /\ AnswersIdle
    /\ ClientIdle
    /\ plan = NoPlan
    /\ aborted = FALSE
    /\ pc = "start"
    /\ i = 0
    /\ events = <<>>
    /\ full = ""
    /\ sources = <<>>
    /\ collected = <<>>
    /\ contextAnalysisResult = ""
    /\ thrown = NoThrow
    /\ abortedAt = NoAbort
    /\ severed = FALSE
    /\ failurePath = FALSE
    /\ escaped = FALSE

\* ----------------------------------------------------------------- actions
\* The request's abort signal fires (user cancel or client disconnect).
Abort ==
    /\ ~aborted
    /\ pc # "closed"
    /\ aborted' = TRUE
    /\ abortedAt' = [pc |-> pc, i |-> i, n |-> Len(events)]
    /\ UNCHANGED <<link, others, inputs, pc, i, events, full, sources, collected,
                   contextAnalysisResult, thrown>>

\* The start callback up to its first await.
StartSkipTopicCheck ==
    /\ pc = "start"
    /\ IF ~hasKey
       THEN /\ Finish(<<EvError("OPENAI_API_KEY required to execute research"), EvDone>>)
            /\ i' = i
       ELSE IF contextSteps = 1
       THEN /\ events' = <<EvProgress(1, total), EvStepStart(0, ContextTitle)>>
            /\ pc' = "ctxFetch"
            /\ i' = i
       ELSE EnterLoop(<<>>, 0)
    /\ UNCHANGED <<link, others, inputs, aborted, full, sources, collected,
                   contextAnalysisResult, thrown, abortedAt>>

Start ==
    /\ pc = "start"
    /\ IF ~hasKey
       THEN /\ Finish(<<EvError("OPENAI_API_KEY required to execute research"), EvDone>>)
            /\ i' = i
       ELSE IF ~topic
       THEN /\ Finish(<<EvError("Missing topic"), EvDone>>)
            /\ i' = i
       ELSE IF contextSteps = 1
       THEN /\ events' = <<EvProgress(1, total), EvStepStart(0, ContextTitle)>>
            /\ pc' = "ctxFetch"
            /\ i' = i
       ELSE EnterLoop(<<>>, 0)
    /\ UNCHANGED <<link, others, inputs, aborted, full, sources, collected,
                   contextAnalysisResult, thrown, abortedAt>>

\* Frames of the context step: its text as one chunk, then step-end.
ContextEvents(text) == <<EvStepChunk(0, text), EvStepEnd(0, text)>>

\* The inner catch of the context step: the error text becomes the step's
\* text, nothing is collected, and the run goes on to the step loop.
ContextCatchFatal(e, site) ==
    /\ Catch(events, e, site)
    /\ UNCHANGED <<link, others, inputs, aborted, i, full, sources, collected,
                   contextAnalysisResult, abortedAt>>

ContextCatch(e, site) ==
    LET errorMsg == "Context analysis error: " \o e.message IN
    /\ StreamOpen
    /\ contextAnalysisResult' = errorMsg
    /\ EnterLoop(events \o ContextEvents(errorMsg), 0)
    /\ thrown' = [site |-> site, index |-> 0, name |-> e.name, message |-> e.message]
    /\ UNCHANGED <<link, others, inputs, aborted, full, sources, collected, abortedAt>>

\* await fetch('/api/context-analysis', {signal}) resolves with an OK response.
CtxFetchOk ==
    /\ pc = "ctxFetch"
    /\ ~aborted
    /\ pc' = "ctxJson"
    /\ UNCHANGED <<link, others, inputs, aborted, i, events, full, sources, collected,
                   contextAnalysisResult, thrown, abortedAt>>

\* The fetch rejects, is aborted, or resolves with a non-OK response.
CtxFetchFail ==
    /\ pc = "ctxFetch"
    /\ IF aborted
       THEN ContextCatch(AbortError, "ctxFetch")
       ELSE \/ \E m \in ErrorMessages : ContextCatch(Failure(m), "ctxFetch")
            \/ ContextCatch(Failure("Context analysis failed: Internal Server Error"), "ctxFetch")

\* await contextResponse.json() resolves: chunk, step-end, collected.push.
CtxJsonOk ==
    /\ pc = "ctxJson"
    /\ ~aborted
    /\ StreamOpen
    /\ \E a \in AnalysisTexts :
        /\ contextAnalysisResult' = a
        /\ collected' = Append(collected, [title |-> ContextTitle, summary |-> a, sources |-> <<>>])
        /\ EnterLoop(events \o ContextEvents(a), 0)
    /\ UNCHANGED <<link, others, inputs, aborted, full, sources, thrown, abortedAt>>

\* Reading the response body rejects or is aborted.
CtxJsonFail ==
    /\ pc = "ctxJson"
    /\ IF aborted
       THEN ContextCatch(AbortError, "ctxJson")
       ELSE \E m \in ErrorMessages : ContextCatch(Failure(m), "ctxJson")

\* await generateText(...) with the search tool resolves: step-sources.
SearchOk ==
    /\ pc = "search"
    /\ ~aborted
    /\ StreamOpen
    /\ \E search \in SearchResults :
        /\ sources' = SourcesOf(search)
        /\ events' = Append(events, EvStepSources(stepIndex(i), SourcesOf(search)))
    /\ pc' = "streamText"
    /\ UNCHANGED <<link, others, inputs, aborted, i, full, collected, contextAnalysisResult,
                   thrown, abortedAt>>

\* The search call throws: nothing guards it, so the outer catch runs.
SearchThrow ==
    /\ pc = "search"
    /\ IF aborted
       THEN Catch(events, AbortError, "search")
       ELSE \E m \in ErrorMessages : Catch(events, Failure(m), "search")
    /\ UNCHANGED <<link, others, inputs, aborted, i, full, sources, collected,
                   contextAnalysisResult, abortedAt>>

\* await streamText(...) returns the stream object; let full = "".
StreamTextOk ==
    /\ pc = "streamText"
    /\ full' = ""
    /\ pc' = "textStream"
    /\ UNCHANGED <<link, others, inputs, aborted, i, events, sources, collected,
                   contextAnalysisResult, thrown, abortedAt>>

\* streamText itself throws.
StreamTextThrow ==
    /\ pc = "streamText"
    /\ IF aborted
       THEN Catch(events, AbortError, "streamText")
       ELSE \E m \in ErrorMessages : Catch(events, Failure(m), "streamText")
    /\ UNCHANGED <<link, others, inputs, aborted, i, full, sources, collected,
                   contextAnalysisResult, abortedAt>>

\* One iteration of for await (const delta of summaryStream.textStream).
TextDelta ==
    /\ pc = "textStream"
    /\ Len(full) < MaxChunks
    /\ aborted \/ StreamOpen
    /\ LET delta == Delta(Len(full)) IN
        IF aborted
        THEN /\ pc' = "usage"
             /\ UNCHANGED <<full, events>>
        ELSE /\ full' = full \o delta
             /\ events' = Append(events, EvStepChunk(stepIndex(i), delta))
             /\ pc' = pc
    /\ UNCHANGED <<link, others, inputs, aborted, i, sources, collected,
                   contextAnalysisResult, thrown, abortedAt>>

\* The token stream ends.
TextEnd ==
    /\ pc = "textStream"
    /\ pc' = "usage"
    /\ UNCHANGED <<link, others, inputs, aborted, i, events, full, sources, collected,
                   contextAnalysisResult, thrown, abortedAt>>

\* The token stream throws while being iterated.
TextThrow ==
    /\ pc = "textStream"
    /\ IF aborted
       THEN Catch(events, AbortError, "textStream")
       ELSE \E m \in ErrorMessages : Catch(events, Failure(m), "textStream")
    /\ UNCHANGED <<link, others, inputs, aborted, i, full, sources, collected,
                   contextAnalysisResult, abortedAt>>

\* await summaryStream.usage resolves: step-usage.
UsageOk ==
    /\ pc = "usage"
    /\ StreamOpen
    /\ events' = Append(events, EvStepUsage(stepIndex(i)))
    /\ pc' = "response"
    /\ UNCHANGED <<link, others, inputs, aborted, i, full, sources, collected,
                   contextAnalysisResult, thrown, abortedAt>>

\* await summaryStream.usage rejects: nothing guards it.  The rejection is
\* whatever the provider reports, an AbortError only after the signal fired.
UsageThrow ==
    /\ pc = "usage"
    /\ \/ \E m \in ErrorMessages : Catch(events, Failure(m), "usage")
       \/ aborted /\ Catch(events, AbortError, "usage")
    /\ UNCHANGED <<link, others, inputs, aborted, i, full, sources, collected,
                   contextAnalysisResult, abortedAt>>

\* Frames that end research step k.
StepEndEventsNone(k) == <<>>
StepEndEvents(k) == <<EvStepEnd(stepIndex(k), full)>>

\* await summaryStream.response settles (a rejection is swallowed), then
\* step-end, collected.push and the next loop iteration.
ResponseSettled ==
    /\ pc = "response"
    /\ StreamOpen
    /\ collected' = Append(collected,
                           [title |-> steps[i + 1], summary |-> full, sources |-> sources])
    /\ EnterLoop(events \o StepEndEvents(i), i + 1)
    /\ UNCHANGED <<link, others, inputs, aborted, full, sources, contextAnalysisResult,
                   thrown, abortedAt>>

\* Frames sent after generateObject returned `report`.
SynthesisTail(report) ==
    (IF variant = 1
     THEN <<EvStepEnd(finalStepIndex, SynthesisSummary),
            EvProgress(finalStepIndex + 1, finalStepIndex + 1)>>
     ELSE <<>>)
    \o <<EvReport([report EXCEPT !.sources = Unique(collected)]), EvDone>>

\* await generateObject(...) resolves.
SynthOk ==
    /\ pc = "synth"
    /\ ~aborted
    /\ \E report \in ReportObjects : Finish(events \o SynthesisTail(report))
    /\ UNCHANGED <<link, others, inputs, aborted, i, full, sources, collected,
                   contextAnalysisResult, thrown, abortedAt>>

\* generateObject throws.
SynthThrow ==
    /\ pc = "synth"
    /\ IF aborted
       THEN Catch(events, AbortError, "synth")
       ELSE \E m \in ErrorMessages : Catch(events, Failure(m), "synth")
    /\ UNCHANGED <<link, others, inputs, aborted, i, full, sources, collected,
                   contextAnalysisResult, abortedAt>>

Next ==
    \/ Abort
    \/ Start
    \/ CtxFetchOk
    \/ CtxFetchFail
    \/ CtxJsonOk
    \/ CtxJsonFail
    \/ SearchOk
    \/ SearchThrow
    \/ StreamTextOk
    \/ StreamTextThrow
    \/ TextDelta
    \/ TextEnd
    \/ TextThrow
    \/ UsageOk
    \/ UsageThrow
    \/ ResponseSettled
    \/ SynthOk
    \/ SynthThrow

Spec == Init /\ [][Next]_vars

\* ------------------------------------------- the reader cancels the stream
\* The client cancels its reader while the run is in progress.  The stream
\* was constructed without a cancel handler, so nothing tells the start
\* callback; the request's signal may fire as well (Abort) or not.
ReaderCancel ==
    /\ ~severed
    /\ pc \notin {"start", "closed"}
    /\ severed' = TRUE
    /\ UNCHANGED <<others, inputs, aborted, pc, i, events, full, sources, collected,
                   contextAnalysisResult, thrown, abortedAt, failurePath, escaped>>

StreamClosedError == [name |-> "TypeError", message |-> "Invalid state: Controller is already closed"]

\* The callback resumes on a path whose next statement is a send (a result
\* arrived, or the inner catch of the context step ran): enqueue throws a
\* TypeError, the outer catch takes its non-abort branch, send(error) throws
\* again, and controller.close() in finally throws out of the callback.
SeveredSend ==
    /\ severed
    /\ \/ pc \in {"ctxFetch", "ctxJson", "usage", "response"}
       \/ pc \in {"search", "synth"} /\ ~aborted
       \/ pc = "textStream" /\ ~aborted /\ Len(full) < MaxChunks
    /\ thrown' = [site |-> "send", index |-> i, name |-> StreamClosedError.name,
                  message |-> StreamClosedError.message]
    /\ failurePath' = TRUE
    /\ escaped' = TRUE
    /\ pc' = "closed"
    /\ UNCHANGED <<others, inputs, aborted, i, events, full, sources, collected,
                   contextAnalysisResult, abortedAt, severed>>

\* A remote call throws into the outer catch after the reader cancelled:
\* for an AbortError the throwing send(done) is swallowed, for anything else
\* send(error) throws; either way controller.close() then throws.
SeveredCatch ==
    /\ severed
    /\ \E e \in {AbortError} \cup {Failure(m) : m \in ErrorMessages} :
        /\ \/ pc \in {"search", "streamText", "textStream", "synth"}
                /\ (e.name = "AbortError") = aborted
           \/ pc = "usage" /\ (e.name = "AbortError" => aborted)
        /\ thrown' = [site |-> pc, index |-> i, name |-> e.name, message |-> e.message]
        /\ failurePath' = (e.name # "AbortError")
    /\ escaped' = TRUE
    /\ pc' = "closed"
    /\ UNCHANGED <<others, inputs, aborted, i, events, full, sources, collected,
                   contextAnalysisResult, abortedAt, severed>>

NextCancel ==
    \/ Next
    \/ ReaderCancel
    \/ SeveredSend
    \/ SeveredCatch

SpecCancel == Init /\ [][NextCancel]_vars

\* ------------------------------------------------------------ transport
\* A text is a sequence of characters.  An event of the transport model is
\* the text it carries: JSON.stringify escapes a line feed inside it, and a
\* blank inside it is protected by the delimiters around it.
NL == "\n"
EventTexts == { <<"x">>, <<NL>>, <<" ", "x">> }
DataPrefix == <<"d", "a", "t", "a", ":", " ">>
DoneMarker == <<"[", "D", "O", "N", "E", "]">>

\* JSON.stringify(obj): a line feed becomes the two characters \ and n.
RECURSIVE Escape(_)
Escape(text) ==
    IF text = <<>> THEN <<>>
    ELSE (IF Head(text) = NL THEN <<"\\", "n">> ELSE <<Head(text)>>) \o Escape(Tail(text))
Stringify(text) == <<"{">> \o Escape(text) \o <<"}">>

\* send(obj): `data: ${JSON.stringify(obj)}\n\n`
Frame(text) == DataPrefix \o Stringify(text) \o <<NL, NL>>
RECURSIVE Encode(_)
Encode(evs) == IF evs = <<>> THEN <<>> ELSE Frame(Head(evs)) \o Encode(Tail(evs))

\* JSON.parse(dataStr): the text, or a SyntaxError for anything that is not
\* the output of Stringify.
ParseError == <<"SyntaxError">>
RECURSIVE Unescape(_)
Unescape(body) ==
    IF body = <<>> THEN <<>>
    ELSE IF Head(body) = NL THEN ParseError
    ELSE IF Head(body) = "\\"
         THEN IF Len(body) >= 2 /\ body[2] = "n"
              THEN LET rest == Unescape(Tail(Tail(body))) IN
                   IF rest = ParseError THEN ParseError ELSE <<NL>> \o rest
              ELSE ParseError
         ELSE LET rest == Unescape(Tail(body)) IN
              IF rest = ParseError THEN ParseError ELSE <<Head(body)>> \o rest
Parse(str) ==
    IF Len(str) >= 2 /\ str[1] = "{" /\ str[Len(str)] = "}"
    THEN Unescape(SubSeq(str, 2, Len(str) - 1))
    ELSE ParseError

\* buffer.indexOf("\n\n"), counted from 1; 0 when there is none.
IndexOf(buf) ==
    LET hits == {k \in 1..(Len(buf) - 1) : buf[k] = NL /\ buf[k + 1] = NL} IN
    IF hits = {} THEN 0 ELSE CHOOSE k \in hits : \A h \in hits : k <= h

\* part.split("\n")
RECURSIVE SplitLines(_)
SplitLines(part) ==
    LET cuts == {k \in 1..Len(part) : part[k] = NL} IN
    IF cuts = {} THEN <<part>>
    ELSE LET c == CHOOSE k \in cuts : \A h \in cuts : k <= h IN
         <<SubSeq(part, 1, c - 1)>> \o SplitLines(SubSeq(part, c + 1, Len(part)))

\* line.startsWith("data: ")
StartsWithData(line) == Len(line) >= 6 /\ SubSeq(line, 1, 6) = DataPrefix

\* String.prototype.trim
RECURSIVE Trim(_)
Trim(str) ==
    IF str = <<>> THEN str
    ELSE IF Head(str) \in {" ", NL} THEN Trim(Tail(str))
    ELSE IF str[Len(str)] \in {" ", NL} THEN Trim(SubSeq(str, 1, Len(str) - 1))
    ELSE str

\* The for loop over the lines of one part: the events handed to onEvent.
RECURSIVE LinesEvents(_)
LinesEvents(lines) ==
    IF lines = <<>> THEN <<>>
    ELSE LET line == Head(lines)
             dataStr == Trim(SubSeq(line, 7, Len(line)))
         IN  (IF StartsWithData(line) /\ dataStr # DoneMarker /\ Parse(dataStr) # ParseError
              THEN <<Parse(dataStr)>>
              ELSE <<>>)
             \o LinesEvents(Tail(lines))

\* The inner while loop: every complete part is cut off the buffer and its
\* events are delivered; what follows the last blank line stays buffered.
RECURSIVE DrainDropsRemainder(_, _)
DrainDropsRemainder(buf, out) ==
    LET idx == IndexOf(buf) IN
    IF idx = 0 THEN [buffer |-> buf, delivered |-> out]
    ELSE [buffer |-> <<>>,
          delivered |-> out \o LinesEvents(SplitLines(SubSeq(buf, 1, idx - 1)))]

RECURSIVE Drain(_, _)
Drain(buf, out) ==
    LET idx == IndexOf(buf) IN
    IF idx = 0 THEN [buffer |-> buf, delivered |-> out]
    ELSE Drain(SubSeq(buf, idx + 2, Len(buf)),
               out \o LinesEvents(SplitLines(SubSeq(buf, 1, idx - 1))))

\* The server sent some events and closed the stream; nothing is read yet.
InitTransport ==
    /\ variant = 1
    /\ hasKey = TRUE
    /\ topic = TRUE
    /\ includeContext = FALSE
    /\ steps = <<>>
    /\ RunStart
    /\ ClientIdle
    /\ plan = NoPlan
    /\ AnswersIdle
    /\ tSent \in UNION {[1..n -> EventTexts] : n \in 0..MaxFrames}
    /\ tWire = Encode(tSent)
    /\ tBuffer = <<>>
    /\ tDelivered = <<>>
    /\ tDone = FALSE

\* reader.read() resolves with the next k characters, whatever k is; the
\* buffer grows by them and is drained.
ReadChunk ==
    /\ ~tDone
    /\ \E k \in 1..Len(tWire) :
        LET after == Drain(tBuffer \o SubSeq(tWire, 1, k), tDelivered) IN
        /\ tWire' = SubSeq(tWire, k + 1, Len(tWire))
        /\ tBuffer' = after.buffer
        /\ tDelivered' = after.delivered
    /\ UNCHANGED <<answers, inputs, run, link, client, plan, tSent, tDone>>

\* reader.read() resolves with done: the loop ends.
ReadDone ==
    /\ ~tDone
    /\ tWire = <<>>
    /\ tDone' = TRUE
    /\ UNCHANGED <<answers, inputs, run, link, client, plan, tSent, tWire, tBuffer, tDelivered>>

NextTransport ==
    \/ ReadChunk
    \/ ReadDone

SpecTransport == InitTransport /\ [][NextTransport]_vars

\* --------------------------------------------------------------- client
\* The events the network may hand to the event handler of
\* executePlanStream: a text, summary or message may be empty or missing
\* (evt.text ?? "" and the like make the two the same).
ClientIndices == {0, 1}
ClientSourceLists == { <<>>, <<[url |-> "u1", title |-> "A"]>> }
EvStepLegacy(title) == [Blank EXCEPT !.type = "step", !.title = title]
ClientEvents ==
    {EvError(m) : m \in ErrorMessages}
        \cup {EvProgress(1, 2), EvDone, EvStepUsage(0), EvStepLegacy("S")}
        \cup {EvReport(r) : r \in ReportObjects}
        \cup {EvStepStart(k, t) : k \in ClientIndices, t \in Titles}
        \cup {EvStepSources(k, l) : k \in ClientIndices, l \in ClientSourceLists}
        \cup {EvStepChunk(k, t) : k \in ClientIndices, t \in {"", "a"}}
        \cup {EvStepEnd(k, t) : k \in ClientIndices, t \in {"", "z"}}

\* stepResults is a JavaScript array, index 0 first; a hole reads undefined.
Undefined == [defined |-> FALSE, title |-> "", summary |-> "", sources |-> <<>>]
Entry(title, summary, srcs) ==
    [defined |-> TRUE, title |-> title, summary |-> summary, sources |-> srcs]
EntryAt(arr, idx) == IF idx + 1 <= Len(arr) THEN arr[idx + 1] ELSE Undefined
SetAt(arr, idx, v) ==
    [k \in 1..Max(Len(arr), idx + 1) |->
        IF k = idx + 1 THEN v ELSE IF k <= Len(arr) THEN arr[k] ELSE Undefined]

\* next[index] ?? { title: `Step ${index + 1}`, summary: "", sources: [] }
Existing(arr, idx) ==
    IF EntryAt(arr, idx).defined THEN EntryAt(arr, idx)
    ELSE Entry("Step " \o ToString(idx + 1), "", <<>>)

\* a || b on strings
OrElse(a, b) == IF a # "" THEN a ELSE b

\* setStepResults of the event handler.
ResultsAfterErrorClears(evt, prev) ==
    LET existing == Existing(prev, evt.index) IN
    CASE evt.type = "error" -> <<>>
      [] evt.type = "step-start" ->
            SetAt(prev, evt.index, Entry(evt.title, "", <<>>))
      [] evt.type = "step-sources" ->
            SetAt(prev, evt.index, [existing EXCEPT !.sources = evt.sources])
      [] evt.type = "step-chunk" ->
            SetAt(prev, evt.index,
                  [existing EXCEPT !.summary = OrElse(existing.summary, "") \o evt.text])
      [] evt.type = "step-end" ->
            SetAt(prev, evt.index,
                  [existing EXCEPT !.summary = OrElse(evt.text, existing.summary)])
      [] evt.type = "step" -> Append(prev, Entry(evt.title, "", <<>>))
      [] OTHER -> prev

ResultsAfter(evt, prev) ==
    LET existing == Existing(prev, evt.index) IN
    CASE evt.type = "step-start" ->
            SetAt(prev, evt.index, Entry(evt.title, "", <<>>))
      [] evt.type = "step-sources" ->
            SetAt(prev, evt.index, [existing EXCEPT !.sources = evt.sources])
      [] evt.type = "step-chunk" ->
            SetAt(prev, evt.index,
                  [existing EXCEPT !.summary = OrElse(existing.summary, "") \o evt.text])
      [] evt.type = "step-end" ->
            SetAt(prev, evt.index,
                  [existing EXCEPT !.summary = OrElse(evt.text, existing.summary)])
      [] evt.type = "step" -> Append(prev, Entry(evt.title, "", <<>>))
      [] OTHER -> prev

\* setThinkingSteps of the event handler.
ThinkingAfterChunkKeeps(evt, prev) ==
    CASE evt.type = "step-start" -> prev \cup {evt.index}
      [] OTHER -> prev

ThinkingAfter(evt, prev) ==
    CASE evt.type = "step-start" -> prev \cup {evt.index}
      [] evt.type = "step-chunk" -> prev \ {evt.index}
      [] OTHER -> prev

\* plan?.steps?.filter((s) => s.include !== false) ?? []
activeSteps == SelectSeq(plan.steps, LAMBDA st : st.include)

\* Approve & Execute is pressed (the button is disabled while executing):
\* executePlanStream up to its await fetch.
Execute ==
    /\ ~executing
    /\ plan.present
    /\ executing' = TRUE
    /\ stepResults' = <<>>
    /\ execReport' = NoReport
    /\ progress' = [set |-> TRUE, current |-> 0, total |-> Max(1, Len(activeSteps))]
    /\ thinkingSteps' = {}
    /\ execCtrl' = TRUE
    /\ signalAborted' = FALSE
    /\ cPc' = "fetching"
    /\ cCount' = 0
    /\ sawError' = FALSE
    /\ sawDone' = FALSE
    /\ cLast' = [op |-> "execute", evt |-> Blank]
    /\ UNCHANGED <<answers, inputs, run, link, transport, plan, lastAlert>>

\* catch and finally of executePlanStream: an alert, then executing = false
\* and no controller.
Finished(op, alertText) ==
    /\ lastAlert' = alertText
    /\ executing' = FALSE
    /\ execCtrl' = FALSE
    /\ cPc' = "finished"
    /\ cLast' = [op |-> op, evt |-> Blank]
    /\ UNCHANGED <<answers, inputs, run, link, transport, plan, signalAborted, stepResults,
                   thinkingSteps, progress, execReport, cCount, sawError, sawDone>>

\* fetch resolves with an OK response; readEventStream registers
\* cancelOnAbort and starts reading.
FetchOk ==
    /\ cPc = "fetching"
    /\ ~signalAborted
    /\ cPc' = "reading"
    /\ cLast' = [op |-> "fetchOk", evt |-> Blank]
    /\ UNCHANGED <<answers, inputs, run, link, transport, plan, executing, execCtrl, signalAborted,
                   stepResults, thinkingSteps, progress, execReport, lastAlert,
                   cCount, sawError, sawDone>>

\* fetch rejects with message m, or the response is not OK and its body m
\* becomes the message of the Error thrown.
FetchFail ==
    /\ cPc = "fetching"
    /\ ~signalAborted
    /\ \E m \in ErrorMessages :
        \/ Finished("fetchFail", "Execution failed: " \o OrElse(m, "Please try again"))
        \/ Finished("fetchFail", "Execution failed: " \o OrElse(m, "Execution failed"))

\* The signal was aborted while the fetch was pending: it rejects AbortError.
FetchAborted ==
    /\ cPc = "fetching"
    /\ signalAborted
    /\ Finished("aborted", "Execution canceled")

\* readEventStream hands the event evt to the handler.
Handle(evt) ==
    /\ cPc = "reading"
    /\ ~signalAborted
    /\ stepResults' = ResultsAfter(evt, stepResults)
    /\ thinkingSteps' = ThinkingAfter(evt, thinkingSteps)
    /\ progress' = IF evt.type = "progress"
                   THEN [set |-> TRUE, current |-> evt.current, total |-> evt.total]
                   ELSE progress
    /\ execReport' = IF evt.type = "report" THEN evt.report ELSE execReport
    /\ lastAlert' = IF evt.type = "error"
                    THEN "Execution error: " \o OrElse(evt.message, "Failed to execute")
                    ELSE lastAlert
    /\ sawError' = (sawError \/ evt.type = "error")
    /\ sawDone' = (sawDone \/ evt.type = "done")
    /\ cLast' = [op |-> "event", evt |-> evt]
    /\ cCount' = cCount + 1
    /\ UNCHANGED <<answers, inputs, run, link, transport, plan, cPc, executing, execCtrl, signalAborted>>

\* Any well-formed event may arrive.
OnEvent ==
    /\ cCount < MaxEvents
    /\ \E evt \in ClientEvents : Handle(evt)

\* reader.read() reports done: the server closed the stream.
StreamEnd ==
    /\ cPc = "reading"
    /\ ~signalAborted
    /\ Finished("end", lastAlert)

\* reader.read() rejects with an error that is not an abort.
ReadFail ==
    /\ cPc = "reading"
    /\ ~signalAborted
    /\ \E m \in ErrorMessages :
        Finished("readFail", "Execution failed: " \o OrElse(m, "Please try again"))

\* The Cancel button (shown while plan && executing && execCtrl).
Cancel ==
    /\ plan.present
    /\ executing
    /\ execCtrl
    /\ signalAborted' = TRUE
    /\ execCtrl' = FALSE
    /\ cLast' = [op |-> "cancel", evt |-> Blank]
    /\ UNCHANGED <<answers, inputs, run, link, transport, plan, cPc, executing, stepResults,
                   thinkingSteps, progress, execReport, lastAlert, cCount,
                   sawError, sawDone>>

\* cancelOnAbort cancelled the reader: the pending read reports done (or
\* rejects with the abort), the loop breaks and nothing is alerted.
ReadAbortedNeedsDone ==
    /\ cPc = "reading"
    /\ signalAborted
    /\ sawDone
    /\ Finished("aborted", lastAlert)

ReadAborted ==
    /\ cPc = "reading"
    /\ signalAborted
    /\ Finished("aborted", lastAlert)

InitClient ==
    /\ variant = 1
    /\ hasKey = TRUE
    /\ topic = TRUE
    /\ includeContext = FALSE
    /\ steps = <<>>
    /\ RunStart
    /\ TransportIdle
    /\ AnswersIdle
    /\ ClientIdle
    /\ plan \in {PlanOf(l) : l \in UNION {[1..n -> {PlanStep(t, TRUE) : t \in Titles}] :
                                              n \in 0..MaxSteps}}

NextClient ==
    \/ Execute
    \/ FetchOk
    \/ FetchFail
    \/ FetchAborted
    \/ OnEvent
    \/ StreamEnd
    \/ ReadFail
    \/ Cancel
    \/ ReadAborted

SpecClient == InitClient /\ [][NextClient]_vars

\* The continuations of the client that need nothing from the server run
\* once they can: an aborted fetch rejects, a cancelled reader ends the read.
SpecClientFair ==
    SpecClient /\ WF_vars(FetchAborted) /\ WF_vars(ReadAborted)

\* ----------------------------------------------------- editing the plan
\* The controls of the plan card.  None of them is disabled while a run is
\* executing; the step editors and Reset plan are rendered while plan is
\* not null, Add step always.
EditedTitles == {"E"}
Edited == [op |-> "edit", evt |-> Blank]
ReplaceStep(list, idx, st) == [k \in 1..Len(list) |-> IF k = idx THEN st ELSE list[k]]
RemoveStep(list, idx) ==
    [k \in 1..(Len(list) - 1) |-> IF k < idx THEN list[k] ELSE list[k + 1]]

EditPlan(next) ==
    /\ plan' = next
    /\ cLast' = Edited
    /\ UNCHANGED <<answers, inputs, run, link, transport, cPc, executing, execCtrl,
                   signalAborted, stepResults, thinkingSteps, progress, execReport,
                   lastAlert, cCount, sawError, sawDone>>

\* addManualStep
AddStep ==
    /\ Len(plan.steps) < MaxSteps
    /\ EditPlan(PlanOf(Append(plan.steps, PlanStep("Custom step", TRUE))))

\* deleteStep(idx)
DeleteStep ==
    /\ plan.present
    /\ \E idx \in 1..Len(plan.steps) : EditPlan(PlanOf(RemoveStep(plan.steps, idx)))

\* The Skip / Include button of a step.
ToggleInclude ==
    /\ plan.present
    /\ \E idx \in 1..Len(plan.steps) :
        EditPlan(PlanOf(ReplaceStep(plan.steps, idx,
                                    [plan.steps[idx] EXCEPT !.include = ~@])))

\* The title input of a step.
EditTitle ==
    /\ plan.present
    /\ \E idx \in 1..Len(plan.steps), t \in EditedTitles :
        /\ plan.steps[idx].title # t
        /\ EditPlan(PlanOf(ReplaceStep(plan.steps, idx, [plan.steps[idx] EXCEPT !.title = t])))

\* The Reset plan button.
ResetPlan ==
    /\ plan.present
    /\ plan' = NoPlan
    /\ stepResults' = <<>>
    /\ execReport' = NoReport
    /\ progress' = NoProgress
    /\ cLast' = [op |-> "reset", evt |-> Blank]
    /\ UNCHANGED <<answers, inputs, run, link, transport, cPc, executing, execCtrl,
                   signalAborted, thinkingSteps, lastAlert, cCount, sawError, sawDone>>

\* The frames of a short run, as they arrive while the plan card is used.
PlanRunEvents ==
    {EvProgress(1, 2), EvStepStart(0, "T"), EvStepChunk(0, "a")}
        \cup {EvReport(r) : r \in ReportObjects}
OnRunEvent ==
    /\ cCount < MaxEvents
    /\ \E evt \in PlanRunEvents : Handle(evt)

NextPlan ==
    \/ Execute
    \/ FetchOk
    \/ FetchFail
    \/ FetchAborted
    \/ OnRunEvent
    \/ StreamEnd
    \/ ReadFail
    \/ Cancel
    \/ ReadAborted
    \/ AddStep
    \/ DeleteStep
    \/ ToggleInclude
    \/ EditTitle
    \/ ResetPlan

SpecPlan == InitClient /\ [][NextPlan]_vars

\* ------------------------------------------------------- server to client
\* The client reading the response of one run of the handler: the frames
\* the handler has sent reach the event handler in order, and the read
\* reports the end once the handler closed the stream and every frame was
\* handled.  A step of the handler and the handling of a frame commute
\* (neither reads what the other writes), so the handler is let to move
\* only when the client has handled every frame sent so far.
InitStream ==
    /\ variant \in {1, 2}
    /\ hasKey = TRUE
    /\ topic = TRUE
    /\ includeContext \in (IF variant = 1 THEN BOOLEAN ELSE {FALSE})
    /\ steps \in UNION {[1..n -> Titles] : n \in 0..MaxSteps}
    /\ RunStart
    /\ TransportIdle
    /\ AnswersIdle
    /\ plan = PlanOf([k \in 1..Len(steps) |-> PlanStep(steps[k], TRUE)])
    /\ cPc = "reading"
    /\ executing = TRUE
    /\ execCtrl = TRUE
    /\ signalAborted = FALSE
    /\ stepResults = <<>>
    /\ thinkingSteps = {}
    /\ progress = [set |-> TRUE, current |-> 0, total |-> Max(1, Len(steps))]
    /\ execReport = NoReport
    /\ lastAlert = ""
    /\ cCount = 0
    /\ cLast = [op |-> "fetchOk", evt |-> Blank]
    /\ sawError = FALSE
    /\ sawDone = FALSE

\* The next frame of the response reaches the handler.
Deliver ==
    /\ cCount < Len(events)
    /\ Handle(events[cCount + 1])

\* The read reports done after the last frame of a closed stream.
DeliverEnd ==
    /\ pc = "closed"
    /\ cCount = Len(events)
    /\ StreamEnd

HandlerStep ==
    /\ cCount = Len(events)
    /\ Next

NextStream ==
    \/ HandlerStep
    \/ Deliver
    \/ DeliverEnd

SpecStream == InitStream /\ [][NextStream]_vars

\* ------------------------------------------- the answer-questions handler
\* POST /api/answer-questions/stream answers the questions of a report one
\* after the other over the same kind of stream.  The request's context is
\* taken as the client sends it (topic, report and step summaries present),
\* so building the prompt does not throw; !questions and an empty list take
\* the same branch and are both the empty list here.
research == <<inputs, run, link, transport, client, plan>>

EvQuestionStart(idx, q) ==
    [Blank EXCEPT !.type = "question-start", !.index = idx, !.title = q]
EvQuestionChunk(idx, text) ==
    [Blank EXCEPT !.type = "question-chunk", !.index = idx, !.text = text]
EvQuestionUsage(idx) == [Blank EXCEPT !.type = "question-usage", !.index = idx]
EvQuestionEnd(idx, q, answer) ==
    [Blank EXCEPT !.type = "question-end", !.index = idx, !.title = q, !.text = answer]

qTotal == Len(questions)

InitAnswers ==
    /\ variant = 1
    /\ hasKey = TRUE
    /\ topic = TRUE
    /\ includeContext = FALSE
    /\ steps = <<>>
    /\ RunStart
    /\ TransportIdle
    /\ ClientIdle
    /\ plan = NoPlan
    /\ qHasKey \in BOOLEAN
    /\ questions \in UNION {[1..n -> QuestionTexts] : n \in 0..MaxQuestions}
    /\ AnswersStart

\* req.signal fires.
QAbort ==
    /\ ~qAborted
    /\ qPc # "closed"
    /\ qAborted' = TRUE
    /\ UNCHANGED <<research, qHasKey, questions, qPc, qI, qEvents, fullAnswer, qThrown>>

\* The head of the loop for question k with ev sent so far: the bound and
\* the abort check, then question-start; past the loop, done and close.
QLoop(ev, k) ==
    IF k < qTotal /\ ~qAborted
    THEN /\ qEvents' = Append(ev, EvQuestionStart(k, questions[k + 1]))
         /\ qI' = k
         /\ qPc' = "streamText"
    ELSE /\ qEvents' = Append(ev, EvDone)
         /\ qI' = k
         /\ qPc' = "closed"

\* The start callback up to its first await.
QStart ==
    /\ qPc = "start"
    /\ IF ~qHasKey
       THEN /\ qEvents' = <<EvError("OPENAI_API_KEY required to answer questions"), EvDone>>
            /\ qPc' = "closed"
            /\ qI' = qI
       ELSE IF qTotal = 0
       THEN /\ qEvents' = <<EvError("No questions provided"), EvDone>>
            /\ qPc' = "closed"
            /\ qI' = qI
       ELSE QLoop(<<EvProgress(0, qTotal)>>, 0)
    /\ UNCHANGED <<research, qHasKey, questions, qAborted, fullAnswer, qThrown>>

\* The inner catch: the error text as a chunk and as the answer, progress,
\* then the next iteration.
QCatchNoEnd(e, site) ==
    LET errorMsg == "Error answering question " \o ToString(qI + 1) \o ": " \o e.message IN
    /\ qThrown' = Append(qThrown, [site |-> site, index |-> qI, name |-> e.name,
                                   message |-> e.message])
    /\ QLoop(qEvents \o <<EvQuestionChunk(qI, errorMsg),
                          EvProgress(qI + 1, qTotal)>>, qI + 1)
QCatch(e, site) ==
    LET errorMsg == "Error answering question " \o ToString(qI + 1) \o ": " \o e.message IN
    /\ qThrown' = Append(qThrown, [site |-> site, index |-> qI, name |-> e.name,
                                   message |-> e.message])
    /\ QLoop(qEvents \o <<EvQuestionChunk(qI, errorMsg),
                          EvQuestionEnd(qI, questions[qI + 1], errorMsg),
                          EvProgress(qI + 1, qTotal)>>, qI + 1)

\* await streamText(...) resolves.
QStreamTextOk ==
    /\ qPc = "streamText"
    /\ fullAnswer' = ""
    /\ qPc' = "textStream"
    /\ UNCHANGED <<research, qHasKey, questions, qAborted, qI, qEvents, qThrown>>

\* await streamText(...) rejects: an AbortError once the signal fired.
QStreamTextThrow ==
    /\ qPc = "streamText"
    /\ IF qAborted
       THEN QCatch(AbortError, "streamText")
       ELSE \E m \in ErrorMessages : QCatch(Failure(m), "streamText")
    /\ UNCHANGED <<research, qHasKey, questions, qAborted, fullAnswer>>

\* One iteration of for await (const delta of answerStream.textStream).
QTextDelta ==
    /\ qPc = "textStream"
    /\ Len(fullAnswer) < MaxChunks
    /\ LET delta == Delta(Len(fullAnswer)) IN
        IF qAborted
        THEN /\ qPc' = "usage"
             /\ UNCHANGED <<fullAnswer, qEvents>>
        ELSE /\ fullAnswer' = fullAnswer \o delta
             /\ qEvents' = Append(qEvents, EvQuestionChunk(qI, delta))
             /\ qPc' = qPc
    /\ UNCHANGED <<research, qHasKey, questions, qAborted, qI, qThrown>>

\* The token stream ends.
QTextEnd ==
    /\ qPc = "textStream"
    /\ qPc' = "usage"
    /\ UNCHANGED <<research, qHasKey, questions, qAborted, qI, qEvents, fullAnswer, qThrown>>

\* The token stream throws.
QTextThrow ==
    /\ qPc = "textStream"
    /\ IF qAborted
       THEN QCatch(AbortError, "textStream")
       ELSE \E m \in ErrorMessages : QCatch(Failure(m), "textStream")
    /\ UNCHANGED <<research, qHasKey, questions, qAborted, fullAnswer>>

\* answerStream.usage is a promise, so the test passes; it resolves and
\* question-usage is sent.
QUsageOk ==
    /\ qPc = "usage"
    /\ qEvents' = Append(qEvents, EvQuestionUsage(qI))
    /\ qPc' = "response"
    /\ UNCHANGED <<research, qHasKey, questions, qAborted, qI, fullAnswer, qThrown>>

\* await answerStream.usage rejects, inside the inner try.
QUsageThrow ==
    /\ qPc = "usage"
    /\ \/ \E m \in ErrorMessages : QCatch(Failure(m), "usage")
       \/ qAborted /\ QCatch(AbortError, "usage")
    /\ UNCHANGED <<research, qHasKey, questions, qAborted, fullAnswer>>

\* await answerStream.response settles (a rejection is swallowed), then
\* question-end, progress and the next iteration.
QResponseSettled ==
    /\ qPc = "response"
    /\ QLoop(qEvents \o <<EvQuestionEnd(qI, questions[qI + 1], fullAnswer),
                          EvProgress(qI + 1, qTotal)>>, qI + 1)
    /\ UNCHANGED <<research, qHasKey, questions, qAborted, fullAnswer, qThrown>>

NextAnswers ==
    \/ QAbort
    \/ QStart
    \/ QStreamTextOk
    \/ QStreamTextThrow
    \/ QTextDelta
    \/ QTextEnd
    \/ QTextThrow
    \/ QUsageOk
    \/ QUsageThrow
    \/ QResponseSettled

SpecAnswers == InitAnswers /\ [][NextAnswers]_vars

\* ------------------------------------------------------- reading the trace
Positions(type) == {p \in 1..Len(events) : events[p].type = type}
Count(type) == Cardinality(Positions(type))
StepPositions(idx) ==
    {p \in 1..Len(events) :
        /\ events[p].index = idx
        /\ events[p].type \in {"step-start", "step-sources", "step-chunk", "step-end"}}
Rank(type) ==
    CASE type = "step-start" -> 1
      [] type = "step-sources" -> 2
      [] type = "step-chunk" -> 3
      [] type = "step-end" -> 4
Indices == {events[p].index : p \in 1..Len(events)} \ {-1}
Closed == pc = "closed"

\* C1: done is sent at most once, nothing is sent after it, and when the
\* stream is closed exactly one done has been sent and it is the last frame.
C1_DoneOnceAndLast ==
    /\ Count("done") <= 1
    /\ \A p \in Positions("done") : p = Len(events)
    /\ Closed => /\ Count("done") = 1
                 /\ events[Len(events)] = EvDone

\* C1 witness: a run that was aborted in the middle of its second step, after
\* a complete first step, and whose stream has been closed.
C1_Witness ==
    /\ Closed
    /\ thrown.name = "AbortError"
    /\ thrown.index = 1
    /\ Count("step-end") >= 1

\* C2: among the frames of one step index, step-start comes first,
\* step-sources second, the step-chunk frames next and step-end last; only
\* step-chunk may occur more than once.
C2_StepOrder ==
    \A idx \in Indices :
        \A p, q \in StepPositions(idx) :
            p < q =>
                /\ Rank(events[p].type) <= Rank(events[q].type)
                /\ Rank(events[p].type) = Rank(events[q].type)
                       => events[p].type = "step-chunk"

\* C2 witness: behind a context step, a research step has sent all four kinds
\* of frame, two chunks among them.
C2_Witness ==
    \E idx \in Indices :
        /\ idx >= 1
        /\ contextSteps = 1
        /\ {events[p].type : p \in StepPositions(idx)}
               = {"step-start", "step-sources", "step-chunk", "step-end"}
        /\ Cardinality({p \in StepPositions(idx) : events[p].type = "step-chunk"}) = 2

\* C9: progress.current never decreases from one progress frame to the next
\* and never exceeds the total of its frame.
C9_ProgressMonotone ==
    /\ \A p, q \in Positions("progress") :
           p < q => events[p].current <= events[q].current
    /\ \A p \in Positions("progress") : events[p].current <= events[p].total

\* C9 witness: a complete run with context analysis and two research steps,
\* all of whose progress frames have been sent.
C9_Witness ==
    /\ Closed
    /\ contextSteps = 1
    /\ researchSteps = 2
    /\ Count("report") = 1
    /\ Count("progress") = 5

\* C3: when the signal fires while the token stream of a step is being
\* iterated, nothing but done follows the frames already sent: no step-end
\* for that step, no report.
C3_AbortDuringStream ==
    (Closed /\ abortedAt.pc = "textStream") =>
        /\ \A p \in Positions("step-end") : events[p].index # stepIndex(abortedAt.i)
        /\ Count("report") = 0
        /\ events = SubSeq(events, 1, abortedAt.n) \o <<EvDone>>

\* C4: once the signal has fired during a unit of work or between two units,
\* no step-start follows, no report and no error is sent, and the run ends
\* with done.
C4_AbortShortCircuit ==
    (aborted /\ abortedAt.pc # "start") =>
        /\ \A p \in 1..Len(events) :
               p > abortedAt.n => events[p].type \notin {"step-start", "report", "error"}
        /\ Count("report") = 0
        /\ Count("error") = 0
        /\ Closed => events[Len(events)] = EvDone

\* C5: a failure of the search call of a step is recovered: no error frame is
\* sent and the step sends step-sources with an empty list.
C5_RetrievalFailureRecovered ==
    (thrown.site = "search" /\ thrown.name = "Error") =>
        /\ Count("error") = 0
        /\ \E p \in Positions("step-sources") :
               /\ events[p].index = stepIndex(thrown.index)
               /\ events[p].sources = <<>>

\* The shape of a run that failed in the generation call of a research step,
\* with `msg` the message of the error frame.
GenerationFailed ==
    /\ thrown.site \in {"streamText", "textStream"}
    /\ thrown.name = "Error"
FailedRunShape(msg) ==
    LET j == stepIndex(thrown.index)
        At(type, idx) == {p \in Positions(type) : events[p].index = idx}
    IN  /\ \A idx \in 0..(j - 1) :
               /\ Cardinality(At("step-start", idx)) = 1
               /\ Cardinality(At("step-end", idx)) = 1
               /\ idx >= contextSteps => Cardinality(At("step-sources", idx)) = 1
               /\ \A p \in At("step-start", idx), q \in At("step-end", idx) : p < q
        /\ Cardinality(At("step-start", j)) = 1
        /\ At("step-end", j) = {}
        /\ \A p \in Positions("step-start") : events[p].index <= j
        /\ Count("report") = 0
        /\ Count("error") = 1
        /\ Len(events) >= 2
        /\ events[Len(events) - 1] = EvError(msg)
        /\ events[Len(events)] = EvDone

\* C6 as stated: when the generation call of a step throws for a reason other
\* than abort, the earlier steps are complete, the failing step has its
\* step-start and no step-end, and one error frame carrying the message of the
\* failure is followed by done; no later step-start, no report.
C6_ErrorCarriesFailureMessage ==
    GenerationFailed => FailedRunShape(thrown.message)

\* C6 amended: the same, the error frame carrying the message of the failure
\* when it has one and "Execution failed" when the message is empty.
C6_ErrorCarriesMessageOrDefault ==
    GenerationFailed =>
        FailedRunShape(IF thrown.message = "" THEN "Execution failed" ELSE thrown.message)

\* C6 witness: the token stream of the second research step threw an error
\* without a message after delivering a chunk, behind a complete first step.
C6_Witness ==
    /\ GenerationFailed
    /\ thrown.site = "textStream"
    /\ thrown.index = 1
    /\ thrown.message = ""
    /\ full # ""

\* C7: when the token stream has been delivered in full and the usage promise
\* then rejects, step-end is still sent for the step with the whole text.
C7_UsageFailureKeepsText ==
    (thrown.site = "usage" /\ thrown.name = "Error" /\ ~aborted) =>
        \E p \in Positions("step-end") :
            /\ events[p].index = stepIndex(thrown.index)
            /\ events[p].text = full

\* C8: every progress frame of a run carries the same total, which is
\* contextSteps + number of steps + 1.
C8_TotalFixed ==
    /\ \A p, q \in Positions("progress") : events[p].total = events[q].total
    /\ \A p \in Positions("progress") :
           events[p].total = contextSteps + researchSteps + 1

\* The concatenation, in order, of the texts of the step-chunk frames of idx.
RECURSIVE ChunkText(_, _)
ChunkText(evs, idx) ==
    IF evs = <<>> THEN ""
    ELSE (IF Head(evs).type = "step-chunk" /\ Head(evs).index = idx
          THEN Head(evs).text ELSE "")
         \o ChunkText(Tail(evs), idx)

\* C10: the summary of every step-end frame equals the concatenation of the
\* texts of the step-chunk frames of the same index.
C10_ChunkReassembly ==
    \A p \in Positions("step-end") :
        events[p].text = ChunkText(events, events[p].index)

\* A run that was cut short neither by abort nor by an error.
CompleteRun ==
    /\ Closed
    /\ abortedAt = NoAbort
    /\ Count("error") = 0
StepTypes == {"step-start", "step-sources", "step-chunk", "step-usage", "step-end"}

\* C11: a complete run sends as many step-start frames as there are steps
\* (plus one with context analysis), each followed by exactly one step-end of
\* its index; in a run cut short no step frame carries an index above that of
\* the last step-start.
C11_StepStartCount ==
    /\ CompleteRun =>
          /\ Count("step-start") = contextSteps + researchSteps
          /\ \A p \in Positions("step-start") :
                 Cardinality({q \in Positions("step-end") :
                                  q > p /\ events[q].index = events[p].index}) = 1
    /\ \A p \in 1..Len(events) :
           events[p].type \in StepTypes =>
               \E q \in Positions("step-start") : events[p].index <= events[q].index

\* C12: at most one report is sent; when it is sent the signal has not fired,
\* no error was sent, the context step and every research step have sent
\* their step-end before it, and done follows it at once.
C12_ReportOnceOnSuccess ==
    /\ Count("report") <= 1
    /\ \A p \in Positions("report") :
           /\ ~aborted
           /\ thrown.site \notin {"search", "streamText", "textStream", "usage", "synth"}
           /\ Count("error") = 0
           /\ \A idx \in 0..(contextSteps + researchSteps - 1) :
                  \E q \in Positions("step-end") : q < p /\ events[q].index = idx
           /\ p = Len(events) - 1
           /\ events[Len(events)] = EvDone

\* C12 witness: a report has been sent after a context step and two steps.
C12_Witness ==
    /\ Count("report") = 1
    /\ contextSteps = 1
    /\ researchSteps = 2

\* The sources of the step-sources frames of a trace, in order.
RECURSIVE TraceSources(_)
TraceSources(evs) ==
    IF evs = <<>> THEN <<>>
    ELSE (IF Head(evs).type = "step-sources" THEN Head(evs).sources ELSE <<>>)
         \o TraceSources(Tail(evs))
FirstPos(flat, u) ==
    CHOOSE p \in 1..Len(flat) :
        flat[p].url = u /\ \A q \in 1..(p - 1) : flat[q].url # u
\* r holds each url of flat once, with the entry of its first occurrence, in
\* the order of the first occurrences.
IsDedupOf(r, flat) ==
    /\ {r[a].url : a \in 1..Len(r)} = {flat[p].url : p \in 1..Len(flat)}
    /\ \A a, b \in 1..Len(r) : a # b => r[a].url # r[b].url
    /\ \A a \in 1..Len(r) : r[a] = flat[FirstPos(flat, r[a].url)]
    /\ \A a, b \in 1..Len(r) :
           a < b => FirstPos(flat, r[a].url) < FirstPos(flat, r[b].url)

\* C13: the sources of the report are the sources the steps sent, one entry
\* per url, that of its first occurrence, in order of first occurrence; the
\* list the synthesis call returned is not used.
C13_ReportSources ==
    \A p \in Positions("report") :
        IsDedupOf(events[p].report.sources, TraceSources(events))

\* C13 witness: a report whose two steps sent four sources with two urls, one
\* url repeated across the steps and within a step.
C13_Witness ==
    \E p \in Positions("report") :
        /\ Len(TraceSources(events)) = 4
        /\ events[p].report.sources =
               <<[url |-> "u1", title |-> "A"], [url |-> "u2", title |-> "C"]>>

\* C14: with zero steps and no context analysis the total is 1, the only
\* frame before the synthesis call is progress(1,1), and a successful run is
\* progress(1,1), report, done.
C14_ZeroSteps ==
    (hasKey /\ topic /\ researchSteps = 0 /\ contextSteps = 0) =>
        /\ total = 1
        /\ pc = "synth" => events = <<EvProgress(1, 1)>>
        /\ CompleteRun =>
               /\ Len(events) = 3
               /\ events[1] = EvProgress(1, 1)
               /\ events[2].type = "report"
               /\ events[3] = EvDone

\* C15 as stated: with the credential, the topic or the steps missing, no
\* remote call is made and the run is one error frame followed by done.
C15_MissingPreconditionFailsFast ==
    (~hasKey \/ ~topic \/ researchSteps = 0) =>
        /\ pc \in {"start", "closed"}
        /\ Closed =>
               /\ Len(events) = 2
               /\ events[1].type = "error"
               /\ events[2] = EvDone

\* C15 amended: with the credential or the topic missing, no remote call is
\* made and the run is one error frame, naming what is missing, followed by
\* done.
C15_MissingKeyOrTopicFailsFast ==
    (~hasKey \/ ~topic) =>
        /\ pc \in {"start", "closed"}
        /\ Closed =>
               events = <<EvError(IF ~hasKey
                                  THEN "OPENAI_API_KEY required to execute research"
                                  ELSE "Missing topic"),
                          EvDone>>

\* C15 witness: a closed run of a request with a credential, steps and no topic.
C15_Witness ==
    /\ Closed
    /\ hasKey
    /\ ~topic
    /\ researchSteps = 2

\* C17: once the reader has cancelled the stream, the run takes no failure
\* path (it never tries to send `error`) and no exception leaves the start
\* callback when it next writes to or closes the stream.
C17_ReaderCancelIsAbort == severed => (~failurePath /\ ~escaped)

\* After the reader cancelled, a run that ends at all ends with an exception
\* leaving the start callback.
C17_SeveredRunEscapes == (severed /\ Closed) => escaped

\* C16: transport round trip.  Whatever events the server sent and however
\* the bytes are split into read chunks, the events handed to onEvent are at
\* every moment the first events sent, in order, none dropped, duplicated
\* or merged; what is buffered or unread is exactly the encoding of the
\* events not yet handed over; when the stream has ended all were handed over.
IsPrefix(a, b) == Len(a) <= Len(b) /\ a = SubSeq(b, 1, Len(a))
C16_RoundTrip ==
    /\ IsPrefix(tDelivered, tSent)
    /\ tBuffer \o tWire = Encode(SubSeq(tSent, Len(tDelivered) + 1, Len(tSent)))
    /\ tDone => tDelivered = tSent

\* The first event (one with an escaped line feed) was handed over while a
\* read ended inside the frame of the second.
C16_Witness ==
    /\ Len(tSent) = 2
    /\ tSent[1] = <<NL>>
    /\ tDelivered = <<tSent[1]>>
    /\ tBuffer # <<>>
    /\ tWire # <<>>

\* C18: after a step-end event has been processed, the summary of its entry
\* is the summary the event carried, whatever it is (the empty string
\* included) and whatever the chunks had accumulated.
C18_StepEndOverwrites ==
    (cLast.op = "event" /\ cLast.evt.type = "step-end") =>
        EntryAt(stepResults, cLast.evt.index).summary = cLast.evt.text

\* A step-end that carries a text does replace what the chunks accumulated.
C18_NonEmptySummaryWins ==
    (cLast.op = "event" /\ cLast.evt.type = "step-end" /\ cLast.evt.text # "") =>
        EntryAt(stepResults, cLast.evt.index).summary = cLast.evt.text

\* C19: pressing Cancel aborts the signal of the in-flight request and drops
\* the controller, and from there the client reaches executing = false with
\* no controller by its own continuations alone, whether or not the server
\* sends anything more (a done event included).
C19_CancelFinishes ==
    /\ []((cLast.op = "cancel") => (signalAborted /\ ~execCtrl))
    /\ (cLast.op = "cancel") ~> (~executing /\ ~execCtrl)

\* A run that was reading events was cancelled and is finished without a
\* done event ever having been processed.
C19_Witness ==
    /\ cLast.op = "aborted"
    /\ cCount > 0
    /\ ~sawDone
    /\ ~executing
    /\ ~execCtrl

\* C20: processing an error event, a cancellation, and every way the run
\* ends leave stepResults as it was; an error event leaves the client
\* executing and reading.
EndsOrInterrupts(last) ==
    \/ last.op \in {"cancel", "aborted", "end", "readFail", "fetchFail"}
    \/ last.op = "event" /\ last.evt.type = "error"
C20_PartialResultsKept ==
    [][ /\ EndsOrInterrupts(cLast') => stepResults' = stepResults
        /\ (cLast'.op = "event" /\ cLast'.evt.type = "error") =>
               (executing' /\ cPc' = "reading") ]_vars

\* An error event was processed, a later chunk was still appended, then the
\* user cancelled and the run finished with the entry intact.
C20_Witness ==
    /\ sawError
    /\ cLast.op = "aborted"
    /\ ~executing
    /\ stepResults = <<Entry("Step 1", "a", <<>>)>>

\* C24: in a run without context analysis whose steps all succeed, the
\* frames other than step-chunk and step-usage are, for each step i in
\* order, progress(i+1, N), step-start(i), step-sources(i), step-end(i),
\* then one progress(N+1, N+1) for the synthesis, report and done; the
\* synthesis has no step-start and no step-end.
Skeleton(evs) ==
    LET kept == SelectSeq(evs, LAMBDA e : e.type \notin {"step-chunk", "step-usage"}) IN
    [p \in 1..Len(kept) |-> <<kept[p].type, kept[p].index, kept[p].current, kept[p].total>>]
RECURSIVE ExpectedStepsSkeleton(_, _)
ExpectedStepsSkeleton(k, n) ==
    IF k >= n THEN <<>>
    ELSE << <<"progress", -1, k + 1, n>>, <<"step-start", k, 0, 0>>,
            <<"step-sources", k, 0, 0>>, <<"step-end", k, 0, 0>> >>
         \o ExpectedStepsSkeleton(k + 1, n)
ExpectedSkeleton(n) ==
    ExpectedStepsSkeleton(0, n)
        \o << <<"progress", -1, n + 1, n + 1>>, <<"report", -1, 0, 0>>, <<"done", -1, 0, 0>> >>
C24_SuccessfulRunSequence ==
    (CompleteRun /\ hasKey /\ topic /\ contextSteps = 0) =>
        Skeleton(events) = ExpectedSkeleton(researchSteps)

\* C28: the k-th step-start of a run carries index k-1; every step-sources,
\* step-chunk, step-usage and step-end carries the index of the most recent
\* step-start; the step-start of research step number i (title steps[i])
\* carries index contextSteps + i, the context step index 0.
StepStarts == SelectSeq(events, LAMBDA e : e.type = "step-start")
C28_IndicesContiguous ==
    /\ \A k \in 1..Len(StepStarts) : StepStarts[k].index = k - 1
    /\ \A p \in 1..Len(events) :
        events[p].type \in (StepTypes \ {"step-start"}) =>
            \E q \in 1..(p - 1) :
                /\ events[q].type = "step-start"
                /\ events[q].index = events[p].index
                /\ \A r \in (q + 1)..(p - 1) : events[r].type # "step-start"
    /\ \A k \in 1..Len(StepStarts) :
        LET idx == StepStarts[k].index IN
        /\ idx < contextSteps => StepStarts[k].title = ContextTitle
        /\ (idx >= contextSteps /\ idx < finalStepIndex) =>
               StepStarts[k].title = steps[idx - contextSteps + 1]

\* A complete run with context analysis and two research steps: the context
\* step, both steps and the synthesis have sent their frames.
C28_Witness ==
    /\ CompleteRun
    /\ contextSteps = 1
    /\ researchSteps = 2
    /\ Len(StepStarts) = 4
    /\ Count("step-chunk") > 1

\* C27: when the context-analysis call fails (it throws an error or answers
\* non-OK) and no later call has thrown, the context step has sent
\* step-chunk(0) and step-end(0) with the same error text, no error frame
\* is sent, nothing of the context step is among the collected step
\* outputs, and unless the run was aborted the first research step (or the
\* synthesis) was started and a finished run has sent its report.
ContextFailed == thrown.site \in {"ctxFetch", "ctxJson"} /\ thrown.name = "Error"
C27_ContextFailureNotFatal ==
    ContextFailed =>
        LET errorMsg == "Context analysis error: " \o thrown.message IN
        /\ Len(events) >= 4
        /\ events[3] = EvStepChunk(0, errorMsg)
        /\ events[4] = EvStepEnd(0, errorMsg)
        /\ Count("error") = 0
        /\ \A k \in 1..Len(collected) : collected[k].title # ContextTitle
        /\ abortedAt = NoAbort =>
            /\ Len(events) >= 6
            /\ events[6].type = "step-start"
            /\ events[6].index = 1
            /\ Closed => (Count("report") = 1 /\ Count("step-start") = researchSteps + 2)

\* The context call answered non-OK, both research steps and the synthesis
\* ran, and the report was sent.
C27_Witness ==
    /\ thrown.site = "ctxFetch"
    /\ thrown.message = "Context analysis failed: Internal Server Error"
    /\ researchSteps = 2
    /\ Closed
    /\ Count("report") = 1
    /\ Len(collected) = 2

\* C23: the remote calls of a run happen one after the other.  The call the
\* run is waiting for is the only one whose unit is open in the trace: a
\* retrieval is awaited right after its step-start and before any
\* step-sources of its step, a generation only after the step-sources of
\* its step and before its step-end, the synthesis only when every research
\* step that started has ended; and between two step-starts lies the
\* step-end of the first.
HasFrame(type, idx) == \E p \in 1..Len(events) : events[p].type = type /\ events[p].index = idx
C23_Sequential ==
    /\ \A p, q \in Positions("step-start") :
        p < q => \E r \in (p + 1)..(q - 1) :
                    events[r].type = "step-end" /\ events[r].index = events[p].index
    /\ pc \in {"ctxFetch", "ctxJson"} => Count("step-start") = 1
    /\ pc = "search" =>
        /\ events[Len(events)] = EvStepStart(stepIndex(i), steps[i + 1])
        /\ ~HasFrame("step-sources", stepIndex(i))
    /\ pc \in {"streamText", "textStream", "usage", "response"} =>
        /\ HasFrame("step-sources", stepIndex(i))
        /\ ~HasFrame("step-end", stepIndex(i))
    /\ pc = "synth" =>
        \A idx \in 0..(finalStepIndex - 1) :
            HasFrame("step-start", idx) => HasFrame("step-end", idx)

\* The retrieval of the second research step is awaited; the first step has
\* sent its step-end.
C23_Witness ==
    /\ pc = "search"
    /\ i = 1
    /\ HasFrame("step-end", stepIndex(0))
    /\ Count("step-chunk") > 0

\* C25: what the handler does with one step-start, step-sources or
\* step-chunk event.  step-start makes the entry {title, "", []} and marks
\* the index as thinking; step-sources replaces the sources of the entry
\* and nothing else; step-chunk appends its text to the summary and takes
\* the index out of the thinking set; the entries and the thinking marks of
\* all other indices stay as they were.  By induction the summary after
\* step-start(i) and chunks t1..tk is t1 ++ ... ++ tk, and i is thinking
\* exactly when k = 0.
HandlesEvent(type) == cLast'.op = "event" /\ cLast'.evt.type = type
C25_Reconstruction ==
    [][ LET evt == cLast'.evt
            idx == evt.index
            before == Existing(stepResults, idx)
            after == EntryAt(stepResults', idx)
        IN  /\ HandlesEvent("step-start") =>
                /\ after = Entry(evt.title, "", <<>>)
                /\ thinkingSteps' = thinkingSteps \cup {idx}
            /\ HandlesEvent("step-sources") =>
                /\ after = [before EXCEPT !.sources = evt.sources]
                /\ thinkingSteps' = thinkingSteps
            /\ HandlesEvent("step-chunk") =>
                /\ after = [before EXCEPT !.summary = before.summary \o evt.text]
                /\ thinkingSteps' = thinkingSteps \ {idx}
            /\ (HandlesEvent("step-start") \/ HandlesEvent("step-sources")
                    \/ HandlesEvent("step-chunk")) =>
                \A j \in 0..(Max(Len(stepResults), Len(stepResults')) + 1) :
                    j # idx => EntryAt(stepResults', j) = EntryAt(stepResults, j)
      ]_vars

\* step-start(0) and two chunks were processed: the summary is their
\* concatenation and index 0 is no longer thinking.
C25_Witness ==
    /\ cLast = [op |-> "event", evt |-> EvStepChunk(0, "a")]
    /\ stepResults = <<Entry("T", "aa", <<>>)>>
    /\ thinkingSteps = {}
    /\ cCount = 3

\* C21: once a done event has been processed the run is finished: the
\* client is no longer executing and no longer reading the stream.
C21_DoneFinishes == sawDone => (~executing /\ cPc = "finished")

\* The other half of C21: after a done event no later frame of the same
\* stream changes stepResults, progress or the report.
C21_NothingAfterDone ==
    [][ (sawDone /\ cLast'.op = "event") =>
            (stepResults' = stepResults /\ progress' = progress /\ execReport' = execReport)
      ]_vars

\* C22: while the client is executing, no step changes the plan.
C22_PlanReadOnly == [][executing => plan' = plan]_vars

\* C30: once stepResults, the report and progress are cleared (as Reset
\* plan leaves them), they stay cleared through every step that is not the
\* start of a new execution; in particular the frames of a run in flight do
\* not set them again.
Cleared == stepResults = <<>> /\ execReport = NoReport /\ progress = NoProgress
C30_ResetStays ==
    [][(Cleared /\ cLast'.op # "execute") => Cleared']_vars

\* C26: for the frames of a run of the handler, an index whose step-end
\* has been handled is not in the thinking set, and once done has been
\* handled or the stream has ended the thinking set is empty.
Handled == SubSeq(events, 1, cCount)
C26_ThinkingCleared ==
    /\ \A p \in 1..cCount :
        events[p].type = "step-end" => events[p].index \notin thinkingSteps
    /\ (sawDone \/ cPc = "finished") => thinkingSteps = {}

\* ------------------------------------------------------------------ C29
QPositions(type) == {p \in 1..Len(qEvents) : qEvents[p].type = type}
QAt(type, idx) == {p \in QPositions(type) : qEvents[p].index = idx}
QClosed == qPc = "closed"
QErrorText(t) ==
    "Error answering question " \o ToString(t.index + 1) \o ": " \o t.message

====
